---- MODULE Spec2Model ----
(***************************************************************************)
(* Model of the wheel repair pipeline of auditwheel-repair.py: main(),     *)
(* the ThreadPoolExecutor workers running process_wheel(), the three       *)
(* checkpoint files under OUTPUT_DIR, the local download and repaired      *)
(* directories and the upload repository.                                  *)
(*                                                                         *)
(* Text (file names, stderr lines) is a TLA+ string where the program only *)
(* stores or compares it, and the tuple of its characters (Chars) where    *)
(* the program looks inside it (split, startswith, endswith, in, lower).   *)
(***************************************************************************)
EXTENDS Integers, Sequences, FiniteSets, TLC

(***************************************************************************)
(* Bounds and program constants                                            *)
(***************************************************************************)

\* number of times the script is started (a run ends by the summary, by an
\* exception leaving main(), or by a kill of the process)
MaxRuns == 2

\* config.py: MAX_WORKERS
MAX_WORKERS == 4

\* largest number of dash-separated parts of a filename given to the tag
\* resolution on its own
MaxParts == 3

(***************************************************************************)
(* Text helpers: str.split, str.startswith, str.endswith, str.isdigit,     *)
(* the `in` substring test and str.lower, on tuples of characters.         *)
(***************************************************************************)

Digits == {"0", "1", "2", "3", "4", "5", "6", "7", "8", "9"}

\* s[i:] (1-based i)
Drop(s, i) == SubSeq(s, i, Len(s))

StartsWith(s, p) ==
    /\ Len(p) <= Len(s)
    /\ SubSeq(s, 1, Len(p)) = p

EndsWith(s, p) ==
    /\ Len(p) <= Len(s)
    /\ SubSeq(s, Len(s) - Len(p) + 1, Len(s)) = p

\* p in s
Contains(s, p) ==
    \E t \in {s} :
        \E i \in 1..(Len(t) - Len(p) + 1) : SubSeq(t, i, i + Len(p) - 1) = p

\* str.isdigit: non-empty and all digits
IsDigit(s) ==
    /\ Len(s) > 0
    /\ \A i \in 1..Len(s) : s[i] \in Digits

LowerChar(c) ==
    CASE c = "E" -> "e"
      [] c = "L" -> "l"
      [] c = "F" -> "f"
      [] c = "N" -> "n"
      [] c = "O" -> "o"
      [] OTHER -> c

\* str.lower
Lower(s) == [i \in 1..Len(s) |-> LowerChar(s[i])]

\* index of the first "-" of s, 0 when there is none
RECURSIVE FirstDash(_, _)
FirstDash(s, i) ==
    IF i > Len(s) THEN 0
    ELSE IF s[i] = "-" THEN i
    ELSE FirstDash(s, i + 1)

\* s.split("-")
RECURSIVE Split(_)
Split(s) ==
    LET d == FirstDash(s, 1)
    IN  IF d = 0 THEN <<s>>
        ELSE <<SubSeq(s, 1, d - 1)>> \o Split(Drop(s, d + 1))

(***************************************************************************)
(* The texts of the model                                                  *)
(***************************************************************************)

NoArchA   == "a-1-py3-none-any.whl"
NoArch2A  == "a-1-py2.py3-none-any.whl"
NativeB   == "b-1-cp311-cp311-linux_ppc64le.whl"
NativeB38 == "b-1-cp38-cp38-linux_ppc64le.whl"
BadName   == "d.whl"
BuildE    == "e-1.2.3-cp311-cp311-linux_ppc64le.whl"
BuildG    == "g-1.0-pp39-pypy39_pp73-linux_ppc64le.whl"

ErrNoElf  == "no ELF executable found"
ErrRepair == "cannot repair"

Chars(t) ==
    CASE t = NoArchA ->
           <<"a","-","1","-","p","y","3","-","n","o","n","e","-","a","n","y",
             ".","w","h","l">>
      [] t = NoArch2A ->
           <<"a","-","1","-","p","y","2",".","p","y","3","-","n","o","n","e",
             "-","a","n","y",".","w","h","l">>
      [] t = NativeB ->
           <<"b","-","1","-","c","p","3","1","1","-","c","p","3","1","1","-",
             "l","i","n","u","x","_","p","p","c","6","4","l","e",".","w","h","l">>
      [] t = NativeB38 ->
           <<"b","-","1","-","c","p","3","8","-","c","p","3","8","-",
             "l","i","n","u","x","_","p","p","c","6","4","l","e",".","w","h","l">>
      [] t = BadName ->
           <<"d",".","w","h","l">>
      [] t = ErrNoElf ->
           <<"n","o"," ","E","L","F"," ","e","x","e","c","u","t","a","b","l","e",
             " ","f","o","u","n","d">>
      [] t = ErrRepair ->
           <<"c","a","n","n","o","t"," ","r","e","p","a","i","r">>
      [] t = BuildE ->
           <<"e","-","1",".","2",".","3","-","c","p","3","1","1","-","c","p","3","1","1","-","l","i","n","u","x","_","p","p","c","6","4","l","e",".","w","h","l">>
      [] t = BuildG ->
           <<"g","-","1",".","0","-","p","p","3","9","-","p","y","p","y","3","9","_","p","p","7","3","-","l","i","n","u","x","_","p","p","c","6","4","l","e",".","w","h","l">>
      [] t = "" -> <<>>
      [] t = "no-arch wheel (auditwheel skipped)" ->
           <<"n","o","-","a","r","c","h"," ","w","h","e","e","l"," ","(","a","u",
             "d","i","t","w","h","e","e","l"," ","s","k","i","p","p","e","d",")">>
      [] t = "no ELF files found (no-arch wheel)" ->
           <<"n","o"," ","E","L","F"," ","f","i","l","e","s"," ","f","o","u","n",
             "d"," ","(","n","o","-","a","r","c","h"," ","w","h","e","e","l",")">>
      [] t = "auditwheel succeeded but produced no manylinux wheel" ->
           <<"a","u","d","i","t","w","h","e","e","l"," ","s","u","c","c","e","e",
             "d","e","d"," ","b","u","t"," ","p","r","o","d","u","c","e","d"," ",
             "n","o"," ","m","a","n","y","l","i","n","u","x"," ","w","h","e","e",
             "l">>

Names == {NoArchA, NoArch2A, NativeB, NativeB38, BadName}

\* the lines of a tool's stderr after .strip().splitlines(): none, the
\* auditwheel diagnostic of a wheel without ELF files, another error
Stderrs == {<<>>, <<ErrNoElf>>, <<ErrRepair>>}

\* the .so members of the wheel auditwheel writes for a source wheel: the
\* repaired file is determined by the wheel it is made from
SoMembers(name) == IF name = NativeB THEN <<"b/_native.so">> ELSE <<>>

(***************************************************************************)
(* Pure parts of process_wheel                                             *)
(***************************************************************************)

Cp == <<"c", "p">>

\* py_tag None
NoTag == <<>>

PYTHON_BIN_MAP ==
    { <<"c","p","3","9">>, <<"c","p","3","1","0">>, <<"c","p","3","1","1">>,
      <<"c","p","3","1","2">>, <<"c","p","3","1","3">> }

\* the preference list of process_wheel
TagPreference ==
    << <<"c","p","3","1","3">>, <<"c","p","3","1","2">>, <<"c","p","3","1","1">>,
       <<"c","p","3","1","0">>, <<"c","p","3","9">> >>

RECURSIVE FirstTag(_, _)
FirstTag(parts, i) ==
    IF i > Len(parts) THEN NoTag
    ELSE IF StartsWith(parts[i], Cp) /\ IsDigit(Drop(parts[i], 3)) THEN parts[i]
    ELSE FirstTag(parts, i + 1)

\* extract_python_tag on the characters of the name
ExtractOf(c) == FirstTag(Split(c), 1)

extract_python_tag(name) == ExtractOf(Chars(name))

RECURSIVE FirstKnown(_, _)
FirstKnown(tags, i) ==
    IF i > Len(tags) THEN NoTag
    ELSE IF tags[i] \in PYTHON_BIN_MAP THEN tags[i]
    ELSE FirstKnown(tags, i + 1)

\* ResolveOf without the default of the abi3 wheels
ResolveOf_noAbi3(c) ==
    LET t1 == ExtractOf(c)
    IN  IF t1 = NoTag THEN FirstKnown(TagPreference, 1) ELSE t1

\* py_tag as process_wheel resolves it before it classifies the wheel, on the
\* characters of the name
ResolveOf(c) ==
    LET t1 == ExtractOf(c)
        t2 == IF t1 = NoTag THEN FirstKnown(TagPreference, 1) ELSE t1
    IN  IF Contains(c, <<"a","b","i","3">>) /\ t2 \notin PYTHON_BIN_MAP
        THEN <<"c","p","3","1","1">>
        ELSE t2

\* the py_tag process_wheel settles on, for every wheel name of the model
TagOfName == [n \in Names |-> ResolveOf(Chars(n))]

ResolveTag(name) == TagOfName[name]

\* name.split("-"), for every wheel name of the model
SplitOfName == [n \in Names |-> Split(Chars(n))]

\* pkg, ver = name.split("-")[0:2] unpacks
CanSplit(name) == Len(SplitOfName[name]) >= 2

\* the directory <pkg>/<ver> of a wheel under DOWNLOAD_DIR and REPAIRED_DIR
PkgVer(name) == SubSeq(SplitOfName[name], 1, 2)

\* IsNoArch with the py2.py3 suffix forgotten
IsNoArch_py3Only(name) ==
    EndsWith(Chars(name),
       <<"-","p","y","3","-","n","o","n","e","-","a","n","y",".","w","h","l">>)

IsNoArch(name) ==
    \/ EndsWith(Chars(name),
          <<"-","p","y","3","-","n","o","n","e","-","a","n","y",".","w","h","l">>)
    \/ EndsWith(Chars(name),
          <<"-","p","y","2",".","p","y","3","-","n","o","n","e","-","a","n","y",
            ".","w","h","l">>)

\* "no elf" in res.stderr.lower()
HasNoElf(err) ==
    \E i \in 1..Len(err) : Contains(Lower(Chars(err[i])), <<"n","o"," ","e","l","f">>)

\* res.stderr.strip().splitlines()[-1]; IndexError when there is no line
LastLine(err) == err[Len(err)]

NoArchMsg == "no-arch wheel (auditwheel skipped)"
NoElfMsg == "no ELF files found (no-arch wheel)"
\* EmptyOutputMsg replaced by the text of a generic failure
EmptyOutputMsg_generic == "auditwheel failed"

EmptyOutputMsg == "auditwheel succeeded but produced no manylinux wheel"

(***************************************************************************)
(* The artifacts of the source repository                                  *)
(***************************************************************************)

\* an entry of the metadata query (repo is SOURCE_REPO for all of them)
Item(path, name) == [path |-> path, name |-> name]

\* the results of fetch_wheels() after sorted(wheels, key=name): each
\* behaviour works on one of these lists, the same in every run
FetchSets ==
    { << Item("a/1", NoArchA), Item("b/1", NativeB) >>,
      << Item("b/1", NativeB), Item("old/b/1", NativeB) >>,
      << Item("a/1", NoArch2A), Item("d", BadName) >> }

(***************************************************************************)
(* State                                                                   *)
(***************************************************************************)

VARIABLES
    fetched,          \* what fetch_wheels() returns, sorted by name
    run,              \* number of the current run of the script
    prevEnd,          \* how the previous run ended: "none", "done", "raised", "killed"
    returnedBefore,   \* names whose process_wheel returned an outcome in an earlier run
    raisedBefore,     \* names whose process_wheel raised in the previous run,
                      \* kept until main() has computed to_process
    loaded,           \* the status table as main() loaded it at startup
    mpc,              \* position of main()
    existing_status,  \* main(): ordered dict wheel_path -> status row
    existing_all,     \* main(): ordered dict wheel_path -> library names
    existing_ext,     \* main(): ordered dict wheel_path -> library names
    to_process,       \* main(): the items dispatched in this run
    processed,        \* main(): number of results taken from as_completed
    yielded,          \* futures as_completed has handed to main()
    progress,         \* main(): the [PROGRESS] lines printed in this run
    fut,              \* one future per item of to_process, with its worker's locals
    status_csv,       \* OUTPUT_DIR/wheel_status.csv
    all_csv,          \* OUTPUT_DIR/native_libs_all.csv
    ext_csv,          \* OUTPUT_DIR/native_libs_external.csv
    SUMMARY,          \* the module-level dict of counters
    dl,               \* DOWNLOAD_DIR: state of the local copy of each wheel
    outDir,           \* REPAIRED_DIR: the repaired wheels present, by source wheel
    tagParts,         \* tag resolution on its own: the parts of the filename
    tagOut,           \* tag resolution on its own: the tag resolved, once done
    failed_wheels,    \* source build: wheel_path of the rows with status FAILED
    bidx,             \* source build: idx of the loop over failed_wheels
    bpc,              \* source build: position of source_build_pipeline.main()
    variable_sh,      \* source build: BUILD_SCRIPTS_DIR/variable.sh
    build_script,     \* source build: the local build_script
    image_name,       \* source build: the local image_name
    builds,           \* source build: the calls of build_wheels.py made so far
    attempted         \* source build: the idx values the loop has entered

memVars == <<loaded, existing_status, existing_all, existing_ext, to_process,
             processed, yielded, progress>>
csvVars == <<status_csv, all_csv, ext_csv>>
dirVars == <<dl, outDir>>
histVars == <<fetched, run, prevEnd, returnedBefore, raisedBefore>>
\* the variables main() and its workers have no part in
buildVars == <<failed_wheels, bidx, bpc, variable_sh, build_script, image_name,
               builds, attempted>>
auxVars == <<tagParts, tagOut, buildVars>>
vars == <<fetched, run, prevEnd, returnedBefore, raisedBefore, loaded, mpc, existing_status,
          existing_all, existing_ext, to_process, processed, yielded, progress,
          fut, status_csv, all_csv, ext_csv, SUMMARY, dl, outDir, tagParts, tagOut,
          buildVars>>

(***************************************************************************)
(* Ordered dicts and the checkpoint files                                  *)
(***************************************************************************)

\* a dict is the sequence of its entries [k, v] in insertion order
DictKeys(d) == {d[i].k : i \in 1..Len(d)}

DictGet(d, key) == (CHOOSE i \in 1..Len(d) : d[i].k = key)

\* DictPut that forgets every other key
DictPut_forgetsOthers(d, key, value) == <<[k |-> key, v |-> value]>>

\* d[key] = value
DictPut(d, key, value) ==
    IF key \in DictKeys(d)
    THEN [i \in 1..Len(d) |-> IF d[i].k = key THEN [k |-> key, v |-> value] ELSE d[i]]
    ELSE Append(d, [k |-> key, v |-> value])

\* a file that does not exist, and a file with its data rows (the header row
\* is written first by every rewrite and is not modelled as a row)
NoFile == [exists |-> FALSE, rows |-> <<>>]
FileOf(rows) == [exists |-> TRUE, rows |-> rows]

StatusRow(name, a_s, a_m, p_s, p_m) ==
    [wheel_path |-> name, auditwheel_status |-> a_s, auditwheel_message |-> a_m,
     pip_install_status |-> p_s, pip_install_message |-> p_m]

LibRow(name, lib) == [wheel_path |-> name, native_library |-> lib]

NotFound == "not found"

\* main(): existing_status[row["wheel_path"]] = row, for each row of the file
RECURSIVE LoadStatus(_, _)
LoadStatus(rows, d) ==
    IF rows = <<>> THEN d
    ELSE LoadStatus(Tail(rows), DictPut(d, Head(rows).wheel_path, Head(rows)))

\* main(): existing_all.setdefault(row["wheel_path"], []).append(row["native_library"])
RECURSIVE LoadLibs(_, _)
LoadLibs(rows, d) ==
    IF rows = <<>> THEN d
    ELSE LET r == Head(rows)
             old == IF r.wheel_path \in DictKeys(d)
                    THEN d[DictGet(d, r.wheel_path)].v ELSE <<>>
         IN  LoadLibs(Tail(rows), DictPut(d, r.wheel_path, Append(old, r.native_library)))

\* RowsOfStatus with the last entry of the dict left out of the rewrite
RowsOfStatus_dropsLast(d) == [i \in 1..(Len(d) - 1) |-> d[i].v]

\* the rows main() writes to wheel_status.csv
RowsOfStatus(d) == [i \in 1..Len(d) |-> d[i].v]

\* the rows main() writes to a native_libs file: for wheel, libs: for lib in libs
RECURSIVE RowsOfLibs(_)
RowsOfLibs(d) ==
    IF d = <<>> THEN <<>>
    ELSE [i \in 1..Len(d[1].v) |-> LibRow(d[1].k, d[1].v[i])] \o RowsOfLibs(Tail(d))

\* ToProcess without the filter on existing_status
ToProcess_unfiltered(wheels, status) == wheels

\* to_process = [w for w in wheels if w["name"] not in existing_status]
RECURSIVE ToProcess(_, _)
ToProcess(wheels, status) ==
    IF wheels = <<>> THEN <<>>
    ELSE IF Head(wheels).name \notin DictKeys(status)
         THEN <<Head(wheels)>> \o ToProcess(Tail(wheels), status)
         ELSE ToProcess(Tail(wheels), status)

(***************************************************************************)
(* SUMMARY                                                                 *)
(***************************************************************************)

\* SUMMARY as the module defines it when the process starts
ZeroSummary ==
    [k \in {"total", "audit_success", "audit_failed", "pip_success", "pip_failed",
            "pip_skipped", "no_elf", "native_repaired", "already_processed",
            "newly_processed"} |-> 0]

\* SUMMARY[k] += 1 for each k of keys
Bump(S, keys) == [k \in DOMAIN S |-> IF k \in keys THEN S[k] + 1 ELSE S[k]]

\* ReplayKeys with a FAILED repair counted as audit_success and a SKIPPED
\* install not counted
ReplayKeys_successOnly(row) ==
    (IF row.auditwheel_status \in {"SUCCESS", "FAILED"} THEN {"audit_success"} ELSE {})
    \cup
    (IF row.pip_install_status = "SUCCESS" THEN {"pip_success"}
     ELSE IF row.pip_install_status = "FAILED" THEN {"pip_failed"} ELSE {})
    \cup
    (IF Contains(Lower(Chars(row.auditwheel_message)), <<"n","o"," ","e","l","f">>)
     THEN {"no_elf"} ELSE {})

\* the keys the replay loop of main() increments for one status row
ReplayKeys(row) ==
    (IF row.auditwheel_status = "SUCCESS" THEN {"audit_success"}
     ELSE IF row.auditwheel_status = "FAILED" THEN {"audit_failed"} ELSE {})
    \cup
    (IF row.pip_install_status = "SUCCESS" THEN {"pip_success"}
     ELSE IF row.pip_install_status = "FAILED" THEN {"pip_failed"}
     ELSE IF row.pip_install_status = "SKIPPED" THEN {"pip_skipped"} ELSE {})
    \cup
    (IF Contains(Lower(Chars(row.auditwheel_message)), <<"n","o"," ","e","l","f">>)
     THEN {"no_elf"} ELSE {})

\* main(): for row in existing_status.values(): the counters of the rows;
\* each key ends one higher for every row that increments it
ReplayStatus(d, S) ==
    [k \in DOMAIN S |->
        S[k] + Cardinality({i \in 1..Len(d) : k \in ReplayKeys(d[i].v)})]

\* main(): for wheel, libs in existing_all.items(): native_repaired += 1 for
\* every wheel with a library that is not the sentinel
ReplayLibs(d, S) ==
    [k \in DOMAIN S |->
        IF k = "native_repaired"
        THEN S[k] + Cardinality({i \in 1..Len(d) :
                                   \E j \in 1..Len(d[i].v) : d[i].v[j] # NotFound})
        ELSE S[k]]

(***************************************************************************)
(* Workers                                                                 *)
(***************************************************************************)

\* a local file: the downloaded wheel, or the repaired wheel auditwheel wrote
\* for the source wheel `name`
OrigFile(name) == [kind |-> "orig", name |-> name]
RepFile(name) == [kind |-> "rep", name |-> name]

Absent == [here |-> FALSE, libs |-> <<>>]
Present(libs) == [here |-> TRUE, libs |-> libs]

\* a submitted future: its state, the position of its worker in process_wheel,
\* the locals of process_wheel (res: returncode and stderr lines of the
\* auditwheel run), and what the call has done outside the process
\* (ups: the upload() calls accepted, tested: the files given to pip_install,
\* repairs: the auditwheel runs, failed: the tool command that exited non-zero,
\* venv: the directory create_venv made with mkdtemp, "none", "live" while it
\* exists, "removed" after shutil.rmtree; it is read by no later step of the
\* program, so it is kept with the call that made it; seen: the value of
\* SUMMARY["total"] the call read for its `+= 1`)
NewFuture(item) ==
    [st |-> "pending", pc |-> "start", name |-> item.name, py_tag |-> NoTag,
     audit_status |-> "SUCCESS", audit_msg |-> "",
     pip_status |-> "SKIPPED", pip_msg |-> "",
     bundled_libs |-> <<>>, wheel_to_test |-> OrigFile(item.name),
     res |-> [returncode |-> 0, stderr |-> <<>>],
     ups |-> <<>>, tested |-> <<>>, repairs |-> 0, failed |-> "", venv |-> "none",
     seen |-> 0]

Futures == 1..Len(fut)
Running == {i \in Futures : fut[i].st = "running"}
Finished == {i \in Futures : fut[i].st \in {"returned", "raised"}}

\* the tuple process_wheel returns
Outcome(w) ==
    [name |-> w.name, a_s |-> w.audit_status, a_m |-> w.audit_msg,
     p_s |-> w.pip_status, p_m |-> w.pip_msg, bundled |-> w.bundled_libs]

\* the stderr lines pip can leave
PipStderrs == {<<>>, <<"ERROR: not a supported wheel">>}

\* the process is running: main() is inside the `with ThreadPoolExecutor` block
InPool == mpc \in {"loop", "open_status", "write_status", "open_all", "write_all",
                   "open_ext", "write_ext", "unwind"}

\* locals of process_wheel once download() has returned, and the branch taken
AfterDownload(w) ==
    [w EXCEPT !.st = "running",
              !.py_tag = ResolveTag(w.name),
              !.pc = IF IsNoArch(w.name) THEN "upload_orig" ELSE "repair"]

\* an exception leaves process_wheel
Raised(w) == [w EXCEPT !.st = "raised", !.pc = "end"]

\* process_wheel returns its tuple
Returned(w) == [w EXCEPT !.st = "returned", !.pc = "end"]

\* `if py_tag in PYTHON_BIN_MAP:` before the install test
TestOrSkip(w) == IF w.py_tag \in PYTHON_BIN_MAP THEN "venv" ELSE "cleanup"

\* the local file is there to be opened
FileHere(f) ==
    IF f.kind = "orig" THEN dl[f.name] # "none" ELSE outDir[f.name].here

\* PWTake by a pool that runs the first submitted call only
PWTake_firstOnly(i) ==
    /\ InPool
    /\ i \in Futures
    /\ fut[i].st = "pending"
    /\ i = 1
    /\ fut' = [fut EXCEPT ![i].st = "running", ![i].pc = "count",
                          ![i].seen = SUMMARY["total"]]
    /\ UNCHANGED <<auxVars, histVars, memVars, mpc, csvVars, SUMMARY, dirVars>>

\* a worker thread takes the next queued item and enters process_wheel:
\* `SUMMARY["total"] += 1` reads the counter. The increments of SUMMARY are
\* made by the worker threads without a lock: the read and the write of this
\* one, which every call makes first, are two steps, so that calls entering
\* together can read the same value; the later increments of a call are one
\* step each.
PWTake(i) ==
    /\ InPool
    /\ i \in Futures
    /\ fut[i].st = "pending"
    /\ \A j \in 1..(i - 1) : fut[j].st # "pending"
    /\ Cardinality(Running) < MAX_WORKERS
    /\ fut' = [fut EXCEPT ![i].st = "running", ![i].pc = "count",
                          ![i].seen = SUMMARY["total"]]
    /\ UNCHANGED <<auxVars, histVars, memVars, mpc, csvVars, SUMMARY, dirVars>>

\* `SUMMARY["total"] += 1` writes the counter; download() up to the GET request
PWStart(i) ==
    /\ InPool
    /\ i \in Futures
    /\ fut[i].st = "running"
    /\ fut[i].pc = "count"
    /\ SUMMARY' = [SUMMARY EXCEPT !["total"] = fut[i].seen + 1]
    /\ \/ /\ ~CanSplit(fut[i].name)
          /\ fut' = [fut EXCEPT ![i] = Raised(@)]
          /\ dl' = dl
       \/ /\ CanSplit(fut[i].name)
          /\ dl[fut[i].name] # "none"
          /\ fut' = [fut EXCEPT ![i] = AfterDownload(@)]
          /\ dl' = dl
       \/ /\ CanSplit(fut[i].name)
          /\ dl[fut[i].name] = "none"
          /\ fut' = [fut EXCEPT ![i] = Raised(@)]
          /\ dl' = dl
       \/ /\ CanSplit(fut[i].name)
          /\ dl[fut[i].name] = "none"
          /\ fut' = [fut EXCEPT ![i].st = "running", ![i].pc = "stream"]
          /\ dl' = [dl EXCEPT ![fut[i].name] = "partial"]
    /\ UNCHANGED <<auxVars, histVars, memVars, mpc, csvVars, outDir>>

\* download(): the chunks are written; the file is complete at the end,
\* unless the connection breaks
PWStream(i) ==
    /\ InPool
    /\ i \in Futures
    /\ fut[i].st = "running"
    /\ fut[i].pc = "stream"
    /\ \/ /\ fut' = [fut EXCEPT ![i] = AfterDownload(@)]
          /\ dl' = [dl EXCEPT ![fut[i].name] = IF @ = "none" THEN "none" ELSE "full"]
       \/ /\ fut' = [fut EXCEPT ![i] = Raised(@)]
          /\ dl' = dl
    /\ UNCHANGED <<auxVars, histVars, memVars, mpc, csvVars, SUMMARY, outDir>>

\* no-arch branch: the statuses, the counters no_elf and audit_success,
\* upload(wheel, pkg, ver)
PWUploadOrig(i) ==
    /\ InPool
    /\ i \in Futures
    /\ fut[i].st = "running"
    /\ fut[i].pc = "upload_orig"
    /\ SUMMARY' = Bump(SUMMARY, {"no_elf", "audit_success"})
    /\ \/ /\ FileHere(OrigFile(fut[i].name))
          /\ fut' = [fut EXCEPT ![i] =
                       [@ EXCEPT !.audit_msg = NoArchMsg,
                                 !.ups = Append(@, OrigFile(fut[i].name)),
                                 !.pc = TestOrSkip(fut[i])]]
       \/ fut' = [fut EXCEPT ![i] = Raised([@ EXCEPT !.audit_msg = NoArchMsg])]
    /\ UNCHANGED <<auxVars, histVars, memVars, mpc, csvVars, dirVars>>

\* the install test: create_venv and upgrade_pip (check_call raises on a
\* non-zero exit), r = pip_install(venv, wheel_to_test) and the branch on
\* r.returncode. The environment is private to the call, so the three commands
\* are one step for the other threads. create_venv raises after mkdtemp and
\* before `venv` is bound and the try block is entered; every later exit goes
\* through `finally: shutil.rmtree(venv)`, which on the native path comes after
\* the upload of the repaired wheel.
PWInstallTest(i) ==
    /\ InPool
    /\ i \in Futures
    /\ fut[i].st = "running"
    /\ fut[i].pc = "venv"
    /\ LET w == [fut[i] EXCEPT !.tested = Append(@, fut[i].wheel_to_test)]
       IN  \/ /\ fut' = [fut EXCEPT ![i] =
                           Raised([@ EXCEPT !.failed = "venv", !.venv = "live"])]
              /\ SUMMARY' = SUMMARY
           \/ /\ fut' = [fut EXCEPT ![i] =
                           Raised([@ EXCEPT !.failed = "upgrade_pip",
                                            !.venv = "removed"])]
              /\ SUMMARY' = SUMMARY
           \/ /\ FileHere(fut[i].wheel_to_test)
              /\ fut' = [fut EXCEPT ![i] =
                           IF IsNoArch(w.name)
                           THEN [w EXCEPT !.pip_status = "SUCCESS", !.venv = "removed",
                                          !.pc = "cleanup"]
                           ELSE [w EXCEPT !.pip_status = "SUCCESS", !.venv = "live",
                                          !.pc = "upload_rep"]]
              /\ SUMMARY' = Bump(SUMMARY, {"pip_success"})
           \/ \E err \in PipStderrs :
                LET v == [w EXCEPT !.pip_status = "FAILED", !.failed = "pip_install",
                                   !.venv = "removed"]
                IN  IF err = <<>>
                    THEN /\ fut' = [fut EXCEPT ![i] = Raised(v)]
                         /\ SUMMARY' = SUMMARY
                    ELSE /\ fut' = [fut EXCEPT ![i] =
                                      [v EXCEPT !.pip_msg = LastLine(err),
                                                !.pc = "cleanup"]]
                         /\ SUMMARY' = Bump(SUMMARY, {"pip_failed"})
    /\ UNCHANGED <<auxVars, histVars, memVars, mpc, csvVars, dirVars>>

\* PWUploadRep with the original wheel uploaded next to the repaired one
PWUploadRep_alsoOriginal(i) ==
    /\ InPool
    /\ i \in Futures
    /\ fut[i].st = "running"
    /\ fut[i].pc = "upload_rep"
    /\ \/ /\ FileHere(fut[i].wheel_to_test)
          /\ fut' = [fut EXCEPT ![i].ups = @ \o <<OrigFile(fut[i].name),
                                                  fut[i].wheel_to_test>>,
                                ![i].venv = "removed",
                                ![i].pc = "cleanup"]
       \/ fut' = [fut EXCEPT ![i] = Raised([@ EXCEPT !.venv = "removed"])]
    /\ UNCHANGED <<auxVars, histVars, memVars, mpc, csvVars, SUMMARY, dirVars>>

\* native branch, after a successful install: upload(wheel_to_test, pkg, ver),
\* which opens the file
PWUploadRep(i) ==
    /\ InPool
    /\ i \in Futures
    /\ fut[i].st = "running"
    /\ fut[i].pc = "upload_rep"
    /\ \/ /\ FileHere(fut[i].wheel_to_test)
          /\ fut' = [fut EXCEPT ![i].ups = Append(@, fut[i].wheel_to_test),
                                ![i].venv = "removed",
                                ![i].pc = "cleanup"]
       \/ fut' = [fut EXCEPT ![i] = Raised([@ EXCEPT !.venv = "removed"])]
    /\ UNCHANGED <<auxVars, histVars, memVars, mpc, csvVars, SUMMARY, dirVars>>

\* RepairFailed with the original wheel uploaded before the return
RepairFailed_uploads(w, msg) ==
    Returned([w EXCEPT !.audit_status = "FAILED", !.audit_msg = msg,
                       !.pip_status = "SKIPPED", !.pip_msg = "",
                       !.bundled_libs = <<>>,
                       !.ups = Append(@, OrigFile(w.name))])

\* the early return of a failed repair
RepairFailed(w, msg) ==
    Returned([w EXCEPT !.audit_status = "FAILED", !.audit_msg = msg,
                       !.pip_status = "SKIPPED", !.pip_msg = "",
                       !.bundled_libs = <<>>])

\* res, out = auditwheel_repair(wheel, pkg, ver) and the branch on res.returncode
PWRepair(i) ==
    /\ InPool
    /\ i \in Futures
    /\ fut[i].st = "running"
    /\ fut[i].pc = "repair"
    /\ \/ /\ outDir' = [outDir EXCEPT ![fut[i].name] = Present(SoMembers(fut[i].name))]
          /\ fut' = [fut EXCEPT ![i] = [@ EXCEPT !.repairs = @ + 1, !.pc = "listdir"]]
          /\ SUMMARY' = SUMMARY
       \/ /\ outDir' = outDir
          /\ fut' = [fut EXCEPT ![i] = [@ EXCEPT !.repairs = @ + 1, !.pc = "listdir"]]
          /\ SUMMARY' = SUMMARY
       \/ /\ outDir' = outDir
          /\ \E err \in Stderrs :
               LET w == [fut[i] EXCEPT !.repairs = @ + 1, !.failed = "auditwheel",
                                       !.res = [returncode |-> 1, stderr |-> err]]
               IN  /\ fut' = [fut EXCEPT ![i] =
                                IF HasNoElf(err)
                                THEN [w EXCEPT !.audit_status = "SUCCESS",
                                               !.audit_msg = NoElfMsg,
                                               !.pc = "listdir"]
                                ELSE IF err = <<>>
                                THEN Raised([w EXCEPT !.audit_status = "FAILED"])
                                ELSE RepairFailed(w, LastLine(err))]
                   /\ SUMMARY' = IF HasNoElf(err)
                                 THEN Bump(SUMMARY, {"no_elf", "audit_success"})
                                 ELSE IF err = <<>> THEN SUMMARY
                                 ELSE Bump(SUMMARY, {"audit_failed", "pip_skipped"})
    /\ UNCHANGED <<auxVars, histVars, memVars, mpc, csvVars, dl>>

\* os.listdir(out), filtered on ".whl": out is REPAIRED_DIR/<pkg>/<ver>
ListOut(name) == {n \in Names : outDir[n].here /\ PkgVer(n) = PkgVer(name)}

\* repaired_wheels, the check that it is not empty, wheel_to_test =
\* repaired_wheels[0] (os.listdir gives no order), native_repaired += 1, the
\* read of its .so members with zipfile, which raises when the file cannot be
\* read, and audit_success += 1
PWListdir(i) ==
    /\ InPool
    /\ i \in Futures
    /\ fut[i].st = "running"
    /\ fut[i].pc = "listdir"
    /\ \/ /\ ListOut(fut[i].name) = {}
          /\ fut' = [fut EXCEPT ![i] = RepairFailed(@, EmptyOutputMsg)]
          /\ SUMMARY' = Bump(SUMMARY, {"audit_failed", "pip_skipped"})
       \/ \E f \in ListOut(fut[i].name) :
            \/ /\ fut' = [fut EXCEPT ![i] =
                            [@ EXCEPT !.wheel_to_test = RepFile(f),
                                      !.bundled_libs = outDir[f].libs,
                                      !.audit_status = "SUCCESS",
                                      !.pc = TestOrSkip(fut[i])]]
               /\ SUMMARY' = Bump(SUMMARY, {"native_repaired", "audit_success"})
            \/ /\ fut' = [fut EXCEPT ![i] =
                            Raised([@ EXCEPT !.wheel_to_test = RepFile(f)])]
               /\ SUMMARY' = Bump(SUMMARY, {"native_repaired"})
    /\ UNCHANGED <<auxVars, histVars, memVars, mpc, csvVars, dirVars>>

\* PWCleanup with the worker writing its own row to wheel_status.csv
PWCleanup_writesStatus(i) ==
    /\ InPool
    /\ i \in Futures
    /\ fut[i].st = "running"
    /\ fut[i].pc = "cleanup"
    /\ dl' = [dl EXCEPT ![fut[i].name] = "none"]
    /\ outDir' = IF fut[i].wheel_to_test.kind = "rep"
                 THEN [outDir EXCEPT ![fut[i].wheel_to_test.name] = Absent]
                 ELSE outDir
    /\ fut' = [fut EXCEPT ![i] = Returned(@)]
    /\ status_csv' = FileOf(Append(status_csv.rows,
                          StatusRow(fut[i].name, fut[i].audit_status, fut[i].audit_msg,
                                    fut[i].pip_status, fut[i].pip_msg)))
    /\ UNCHANGED <<auxVars, histVars, memVars, mpc, all_csv, ext_csv, SUMMARY>>

\* the cleanup loops and the final return
PWCleanup(i) ==
    /\ InPool
    /\ i \in Futures
    /\ fut[i].st = "running"
    /\ fut[i].pc = "cleanup"
    /\ dl' = [dl EXCEPT ![fut[i].name] = "none"]
    /\ outDir' = IF fut[i].wheel_to_test.kind = "rep"
                 THEN [outDir EXCEPT ![fut[i].wheel_to_test.name] = Absent]
                 ELSE outDir
    /\ fut' = [fut EXCEPT ![i] = Returned(@)]
    /\ UNCHANGED <<auxVars, histVars, memVars, mpc, csvVars, SUMMARY>>

(***************************************************************************)
(* main()                                                                  *)
(***************************************************************************)

\* LibsEntry with the sentinel added after the library names as well
LibsEntry_sentinelAlways(bundled) == Append(bundled, NotFound)

\* existing_all[name] / existing_ext[name] after the merge of one result
LibsEntry(bundled) == IF bundled # <<>> THEN bundled ELSE <<NotFound>>

\* the memory of the process when it starts, and after it is gone
FreshMemory ==
    /\ loaded' = <<>>
    /\ existing_status' = <<>>
    /\ existing_all' = <<>>
    /\ existing_ext' = <<>>
    /\ to_process' = <<>>
    /\ processed' = 0
    /\ yielded' = {}
    /\ progress' = <<>>
    /\ SUMMARY' = ZeroSummary
    /\ fut' = <<>>

\* main() up to the submission of the futures: makedirs, the load of the three
\* files, fetch_wheels(), sorted(), to_process, ex.submit for each item
Setup ==
    /\ mpc = "setup"
    /\ \/ \E st \in {LoadStatus(status_csv.rows, <<>>)} :
          \E all \in {LoadLibs(all_csv.rows, <<>>)} :
          \E tp \in {ToProcess(fetched, st)} :
          \E counted \in {ReplayStatus(st, SUMMARY)} :
              /\ loaded' = st
              /\ existing_status' = st
              /\ existing_all' = all
              /\ existing_ext' = LoadLibs(ext_csv.rows, <<>>)
              /\ to_process' = tp
              /\ fut' = [i \in 1..Len(tp) |-> NewFuture(tp[i])]
              /\ processed' = 0
              /\ yielded' = {}
              /\ progress' = <<>>
              /\ SUMMARY' = [ReplayLibs(all, counted)
                               EXCEPT !["already_processed"] = Len(st),
                                      !["newly_processed"] = Len(tp)]
              /\ mpc' = "loop"
       \/ /\ mpc' = "raised"
          /\ UNCHANGED <<memVars, fut, SUMMARY>>
    /\ raisedBefore' = {}
    /\ UNCHANGED <<auxVars, fetched, run, prevEnd, returnedBefore, csvVars, dirVars>>

\* ProgressLine with remaining taken before the result is counted
ProgressLine_remainingBeforeCount(processed_so_far, overall_total) ==
    [shown |-> processed_so_far, total |-> overall_total,
     remaining |-> overall_total - (processed_so_far - 1)]

\* the line main() prints for processed_so_far out of overall_total
ProgressLine(processed_so_far, overall_total) ==
    [shown |-> processed_so_far, total |-> overall_total,
     remaining |-> overall_total - processed_so_far]

\* a future whose result main() has taken: what its call did is kept no longer
Taken(w) == [NewFuture([name |-> w.name]) EXCEPT !.st = w.st, !.pc = "end"]

\* one iteration of `for f in as_completed(futures)` up to the first open():
\* f.result() returns the outcome, which is merged, or raises
AsCompleted(i) ==
    /\ mpc = "loop"
    /\ i \in Finished \ yielded
    /\ yielded' = yielded \cup {i}
    /\ fut' = [fut EXCEPT ![i] = Taken(@)]
    /\ IF fut[i].st = "raised"
       THEN /\ mpc' = "unwind"
            /\ UNCHANGED <<existing_status, existing_all, existing_ext, processed,
                           progress>>
       ELSE LET o == Outcome(fut[i])
            IN  /\ processed' = processed + 1
                /\ progress' = Append(progress,
                                  ProgressLine(SUMMARY["already_processed"] + processed + 1,
                                               SUMMARY["already_processed"]
                                                 + SUMMARY["newly_processed"]))
                /\ existing_status' =
                     DictPut(existing_status, o.name,
                             StatusRow(o.name, o.a_s, o.a_m, o.p_s, o.p_m))
                /\ existing_all' = DictPut(existing_all, o.name, LibsEntry(o.bundled))
                /\ existing_ext' = DictPut(existing_ext, o.name, LibsEntry(o.bundled))
                /\ mpc' = "open_status"
    /\ UNCHANGED <<auxVars, histVars, loaded, to_process, SUMMARY, csvVars, dirVars>>

\* open(status_csv, "w") truncates the file
OpenStatus ==
    /\ mpc = "open_status"
    /\ status_csv' = FileOf(<<>>)
    /\ mpc' = "write_status"
    /\ UNCHANGED <<auxVars, histVars, memVars, SUMMARY, fut, all_csv, ext_csv, dirVars>>

\* the rows are written and the file is closed
WriteStatus ==
    /\ mpc = "write_status"
    /\ status_csv' = FileOf(RowsOfStatus(existing_status))
    /\ mpc' = "open_all"
    /\ UNCHANGED <<auxVars, histVars, memVars, SUMMARY, fut, all_csv, ext_csv, dirVars>>

OpenAll ==
    /\ mpc = "open_all"
    /\ all_csv' = FileOf(<<>>)
    /\ mpc' = "write_all"
    /\ UNCHANGED <<auxVars, histVars, memVars, SUMMARY, fut, status_csv, ext_csv, dirVars>>

WriteAll ==
    /\ mpc = "write_all"
    /\ all_csv' = FileOf(RowsOfLibs(existing_all))
    /\ mpc' = "open_ext"
    /\ UNCHANGED <<auxVars, histVars, memVars, SUMMARY, fut, status_csv, ext_csv, dirVars>>

OpenExt ==
    /\ mpc = "open_ext"
    /\ ext_csv' = FileOf(<<>>)
    /\ mpc' = "write_ext"
    /\ UNCHANGED <<auxVars, histVars, memVars, SUMMARY, fut, status_csv, all_csv, dirVars>>

WriteExt ==
    /\ mpc = "write_ext"
    /\ ext_csv' = FileOf(RowsOfLibs(existing_ext))
    /\ mpc' = "loop"
    /\ UNCHANGED <<auxVars, histVars, memVars, SUMMARY, fut, status_csv, all_csv, dirVars>>

\* as_completed is exhausted, the pool is shut down, the summary is printed
Summary ==
    /\ mpc = "loop"
    /\ yielded = Futures
    /\ mpc' = "done"
    /\ UNCHANGED <<auxVars, histVars, memVars, SUMMARY, fut, csvVars, dirVars>>

\* the exception of f.result() leaves the for loop; the with block waits for
\* every submitted future (shutdown(wait=True)) and the exception leaves main()
Unwind ==
    /\ mpc = "unwind"
    /\ Finished = Futures
    /\ mpc' = "raised"
    /\ UNCHANGED <<auxVars, histVars, memVars, SUMMARY, fut, csvVars, dirVars>>

\* names whose process_wheel call has returned its outcome in this run
ReturnedNow == {fut[i].name : i \in {j \in Futures : fut[j].st = "returned"}}

\* names whose process_wheel call has raised in this run
RaisedNow == {fut[i].name : i \in {j \in Futures : fut[j].st = "raised"}}

\* what a file being rewritten holds when the process dies: the rows that had
\* left the buffer
Torn(file, rows, writing) ==
    IF writing THEN {FileOf(SubSeq(rows, 1, k)) : k \in 0..Len(rows)} ELSE {file}

\* the process is killed: its memory and its threads are gone, the files stay
Kill ==
    /\ mpc \in {"setup"} \/ InPool
    /\ status_csv' \in Torn(status_csv, RowsOfStatus(existing_status),
                            mpc = "write_status")
    /\ all_csv' \in Torn(all_csv, RowsOfLibs(existing_all), mpc = "write_all")
    /\ ext_csv' \in Torn(ext_csv, RowsOfLibs(existing_ext), mpc = "write_ext")
    /\ returnedBefore' = returnedBefore \cup ReturnedNow
    /\ raisedBefore' = RaisedNow
    /\ mpc' = "killed"
    /\ FreshMemory
    /\ UNCHANGED <<auxVars, fetched, run, prevEnd, dirVars>>

\* the script is started again
Restart ==
    /\ mpc \in {"done", "raised", "killed"}
    /\ run < MaxRuns
    /\ run' = run + 1
    /\ prevEnd' = mpc
    /\ returnedBefore' = returnedBefore \cup ReturnedNow
    /\ raisedBefore' = IF mpc = "killed" THEN raisedBefore ELSE RaisedNow
    /\ mpc' = "setup"
    /\ FreshMemory
    /\ UNCHANGED <<auxVars, fetched, csvVars, dirVars>>

\* an empty string read for BUILD_SCRIPT or IMAGE_NAME
NoValue == [set |-> FALSE, pkg |-> <<>>, ver |-> <<>>, slash |-> FALSE,
            prefixed |-> FALSE]

\* variable.sh does not exist
NoVariableSh == [exists |-> FALSE, BUILD_SCRIPT |-> NoValue, IMAGE_NAME |-> NoValue]

\* source_build_pipeline.py is not running
BuildIdle ==
    /\ failed_wheels = <<>>
    /\ bidx = 1
    /\ bpc = "idle"
    /\ variable_sh = NoVariableSh
    /\ build_script = NoValue
    /\ image_name = NoValue
    /\ builds = <<>>
    /\ attempted = {}

\* nothing is given to the tag resolution on its own, and the source build
\* is not running
AuxIdle ==
    /\ tagParts = <<>>
    /\ tagOut = [done |-> FALSE, py_tag |-> NoTag]
    /\ BuildIdle

Init ==
    /\ fetched \in FetchSets
    /\ run = 1
    /\ prevEnd = "none"
    /\ returnedBefore = {}
    /\ raisedBefore = {}
    /\ loaded = <<>>
    /\ mpc = "setup"
    /\ existing_status = <<>>
    /\ existing_all = <<>>
    /\ existing_ext = <<>>
    /\ to_process = <<>>
    /\ processed = 0
    /\ yielded = {}
    /\ progress = <<>>
    /\ SUMMARY = ZeroSummary
    /\ fut = <<>>
    /\ status_csv = NoFile
    /\ all_csv = NoFile
    /\ ext_csv = NoFile
    /\ dl = [n \in Names |-> "none"]
    /\ outDir = [n \in Names |-> Absent]
    /\ AuxIdle

Next ==
    \/ Setup
    \/ \E i \in Futures : PWTake(i)
    \/ \E i \in Futures : PWStart(i)
    \/ \E i \in Futures : PWStream(i)
    \/ \E i \in Futures : PWUploadOrig(i)
    \/ \E i \in Futures : PWRepair(i)
    \/ \E i \in Futures : PWListdir(i)
    \/ \E i \in Futures : PWInstallTest(i)
    \/ \E i \in Futures : PWUploadRep(i)
    \/ \E i \in Futures : PWCleanup(i)
    \/ \E i \in Futures : AsCompleted(i)
    \/ OpenStatus
    \/ WriteStatus
    \/ OpenAll
    \/ WriteAll
    \/ OpenExt
    \/ WriteExt
    \/ Summary
    \/ Unwind
    \/ Kill
    \/ Restart

Spec == Init /\ [][Next]_vars

(***************************************************************************)
(* One run of the script over wheels that share REPAIRED_DIR/<pkg>/<ver>   *)
(***************************************************************************)

\* results of fetch_wheels(), sorted by name: two builds of b 1 for different
\* interpreters, and a wheel of an interpreter PYTHON_BIN_MAP does not have
\* next to a no-arch wheel
SameDirSets ==
    { << Item("b/1", NativeB), Item("b/1", NativeB38) >>,
      << Item("a/1", NoArchA), Item("b/1", NativeB38) >> }

InitOneRun ==
    /\ fetched \in SameDirSets
    /\ run = 1
    /\ prevEnd = "none"
    /\ returnedBefore = {}
    /\ raisedBefore = {}
    /\ loaded = <<>>
    /\ mpc = "setup"
    /\ existing_status = <<>>
    /\ existing_all = <<>>
    /\ existing_ext = <<>>
    /\ to_process = <<>>
    /\ processed = 0
    /\ yielded = {}
    /\ progress = <<>>
    /\ SUMMARY = ZeroSummary
    /\ fut = <<>>
    /\ status_csv = NoFile
    /\ all_csv = NoFile
    /\ ext_csv = NoFile
    /\ dl = [n \in Names |-> "none"]
    /\ outDir = [n \in Names |-> Absent]
    /\ AuxIdle

\* the steps of a run that is not interrupted and not started again
NextOneRun ==
    \/ Setup
    \/ \E i \in Futures : PWTake(i)
    \/ \E i \in Futures : PWStart(i)
    \/ \E i \in Futures : PWStream(i)
    \/ \E i \in Futures : PWUploadOrig(i)
    \/ \E i \in Futures : PWRepair(i)
    \/ \E i \in Futures : PWListdir(i)
    \/ \E i \in Futures : PWInstallTest(i)
    \/ \E i \in Futures : PWUploadRep(i)
    \/ \E i \in Futures : PWCleanup(i)
    \/ \E i \in Futures : AsCompleted(i)
    \/ OpenStatus
    \/ WriteStatus
    \/ OpenAll
    \/ WriteAll
    \/ OpenExt
    \/ WriteExt
    \/ Summary
    \/ Unwind

SpecOneRun == InitOneRun /\ [][NextOneRun]_vars

\* runs, kills and restarts as in Spec, where the threads of a running script
\* (the main thread and the workers of the pool) are scheduled: a step of the
\* script that can be taken is not put off for ever.  Nothing forces a kill or
\* a restart.
SpecFair == Init /\ [][Next]_vars /\ WF_vars(NextOneRun)

(***************************************************************************)
(* The tag resolution of process_wheel on its own                          *)
(***************************************************************************)

\* main() is not started and nothing is on disk
MainIdleButStatus ==
    /\ fetched = <<>>
    /\ run = 1
    /\ prevEnd = "none"
    /\ returnedBefore = {}
    /\ raisedBefore = {}
    /\ loaded = <<>>
    /\ mpc = "idle"
    /\ existing_status = <<>>
    /\ existing_all = <<>>
    /\ existing_ext = <<>>
    /\ to_process = <<>>
    /\ processed = 0
    /\ yielded = {}
    /\ progress = <<>>
    /\ SUMMARY = ZeroSummary
    /\ fut = <<>>
    /\ all_csv = NoFile
    /\ ext_csv = NoFile
    /\ dl = [n \in Names |-> "none"]
    /\ outDir = [n \in Names |-> Absent]

MainIdle ==
    /\ MainIdleButStatus
    /\ status_csv = NoFile

mainVars == <<fetched, run, prevEnd, returnedBefore, raisedBefore, loaded, mpc,
              existing_status, existing_all, existing_ext, to_process, processed,
              yielded, progress, fut, status_csv, all_csv, ext_csv, SUMMARY, dl,
              outDir>>

\* dash-separated parts a filename is made of: a package name, tags of
\* interpreters with and without an entry in PYTHON_BIN_MAP, cp followed by
\* nothing and by a non-digit, the stable ABI tag and a generic python tag
TagParts ==
    { <<"b">>, <<"c","p","3","8">>, <<"c","p","3","1","1">>, <<"c","p">>,
      <<"c","p","3","x">>, <<"a","b","i","3">>, <<"p","y","3">> }

\* the filenames: "-".join(parts)
RECURSIVE Join(_)
Join(parts) ==
    IF Len(parts) = 1 THEN parts[1]
    ELSE parts[1] \o <<"-">> \o Join(Tail(parts))

InitTag ==
    /\ MainIdle
    /\ tagParts \in UNION {[1..n -> TagParts] : n \in 1..MaxParts}
    /\ tagOut = [done |-> FALSE, py_tag |-> NoTag]
    /\ BuildIdle

\* process_wheel resolves py_tag for the name
ResolveName ==
    /\ ~tagOut.done
    /\ tagOut' = [done |-> TRUE, py_tag |-> ResolveOf(Join(tagParts))]
    /\ UNCHANGED <<mainVars, tagParts, buildVars>>

NextTag == ResolveName

SpecTag == InitTag /\ [][NextTag]_vars

(***************************************************************************)
(* source_build_pipeline.py: the source builds of the FAILED wheels        *)
(***************************************************************************)

\* index of the first "." of s at or after i, 0 when there is none
RECURSIVE FirstDot(_, _)
FirstDot(s, i) ==
    IF i > Len(s) THEN 0
    ELSE IF s[i] = "." THEN i
    ELSE FirstDot(s, i + 1)

\* s.split(".")
RECURSIVE SplitDots(_)
SplitDots(s) ==
    LET d == FirstDot(s, 1)
    IN  IF d = 0 THEN <<s>>
        ELSE <<SubSeq(s, 1, d - 1)>> \o SplitDots(Drop(s, d + 1))

\* python_version_from_wheel returns None
NoVersion == <<>>

\* the loop of python_version_from_wheel over the parts, from part i
RECURSIVE VersionFromParts(_, _)
VersionFromParts(parts, i) ==
    IF i > Len(parts) THEN NoVersion
    ELSE LET part == parts[i]
             tag == Drop(part, 3)
         IN  IF StartsWith(part, <<"c","p">>) /\ IsDigit(tag) /\ Len(tag) = 2
             THEN <<tag[1], ".", tag[2]>>
             ELSE IF StartsWith(part, <<"c","p">>) /\ IsDigit(tag) /\ Len(tag) = 3
             THEN <<tag[1], ".", tag[2], tag[3]>>
             ELSE VersionFromParts(parts, i + 1)

python_version_from_wheel(wheel_name) == VersionFromParts(Split(Chars(wheel_name)), 1)

\* main(): the wheel_path of the rows whose auditwheel_status is FAILED
RECURSIVE FailedWheels(_)
FailedWheels(rows) ==
    IF rows = <<>> THEN <<>>
    ELSE IF Head(rows).auditwheel_status = "FAILED"
         THEN <<Head(rows).wheel_path>> \o FailedWheels(Tail(rows))
         ELSE FailedWheels(Tail(rows))

\* major, minor, *_ = version.split("."): whether the unpacking succeeds
HasFallback(version) == Len(SplitDots(version)) >= 2

\* f"{major}.{minor}.0"
FallbackVersion(version) ==
    SplitDots(version)[1] \o <<".">> \o SplitDots(version)[2] \o <<".", "0">>

\* a value read_buildinfo.sh resolved for a package and a version; slash
\* tells whether the text has a "/" in it
ValueFor(pkg, ver, slash) ==
    [set |-> TRUE, pkg |-> pkg, ver |-> ver, slash |-> slash, prefixed |-> FALSE]

\* variable.sh after `bash read_buildinfo.sh` ran with PACKAGE_NAME = pkg and
\* VERSION = ver: the script failed before it wrote the file, or it wrote the
\* file with the BUILD_SCRIPT of that package and version, or with an empty
\* BUILD_SCRIPT because it has no build script for that version
ReadBuildinfo(vs, pkg, ver) ==
    {vs}
    \cup {[exists |-> TRUE, BUILD_SCRIPT |-> ValueFor(pkg, ver, sl),
           IMAGE_NAME |-> ValueFor(pkg, ver, TRUE)] : sl \in BOOLEAN}
    \cup {[exists |-> TRUE, BUILD_SCRIPT |-> NoValue,
           IMAGE_NAME |-> ValueFor(pkg, ver, TRUE)]}

\* stdout of `source variable.sh && echo $KEY`
SourceEcho(vs, key) == IF vs.exists THEN vs[key] ELSE NoValue

\* if build_script and "/" not in build_script: build_script = "scripts/" + it
Prefixed(v) == IF v.set /\ ~v.slash THEN [v EXCEPT !.prefixed = TRUE] ELSE v

\* checkpoints the repair script leaves: rows with FAILED and other outcomes
BuildCheckpoints ==
    { << StatusRow(NoArchA, "SUCCESS", NoArchMsg, "SKIPPED", ""),
         StatusRow(NativeB, "FAILED", ErrRepair, "SKIPPED", ""),
         StatusRow(BuildE, "FAILED", ErrRepair, "SKIPPED", "") >>,
      << StatusRow(BuildE, "FAILED", ErrRepair, "SKIPPED", ""),
         StatusRow(NativeB38, "FAILED", EmptyOutputMsg, "SKIPPED", ""),
         StatusRow(BuildG, "FAILED", ErrRepair, "SKIPPED", "") >>,
      << StatusRow(BuildG, "FAILED", ErrRepair, "SKIPPED", ""),
         StatusRow(BuildE, "FAILED", ErrRepair, "SKIPPED", ""),
         StatusRow(NativeB, "FAILED", ErrRepair, "SKIPPED", "") >>,
      << StatusRow(NoArchA, "SUCCESS", NoArchMsg, "SKIPPED", "") >> }

InitBuild ==
    /\ MainIdleButStatus
    /\ status_csv \in {NoFile} \cup {FileOf(rows) : rows \in BuildCheckpoints}
    /\ tagParts = <<>>
    /\ tagOut = [done |-> FALSE, py_tag |-> NoTag]
    /\ failed_wheels = <<>>
    /\ bidx = 1
    /\ bpc = "start"
    /\ variable_sh = NoVariableSh
    /\ build_script = NoValue
    /\ image_name = NoValue
    /\ builds = <<>>
    /\ attempted = {}

\* the locals of the current iteration
WheelName == failed_wheels[bidx]
PkgName == Split(Chars(WheelName))[1]
Version == Split(Chars(WheelName))[2]

\* `continue`, and the end of an iteration
NextWheel ==
    /\ bidx' = bidx + 1
    /\ bpc' = "top"

\* main() up to the loop: the CSV is read, the build-scripts repository is
\* cloned or found, the two scripts are located; each failure returns
BuildLoad ==
    /\ bpc = "start"
    /\ IF ~status_csv.exists
       THEN /\ bpc' = "returned"
            /\ UNCHANGED failed_wheels
       ELSE /\ failed_wheels' = FailedWheels(status_csv.rows)
            /\ \/ /\ failed_wheels' = <<>>
                  /\ bpc' = "returned"
               \/ /\ failed_wheels' # <<>>
                  /\ bpc' \in {"top", "returned"}
    /\ UNCHANGED <<mainVars, tagParts, tagOut, bidx, variable_sh, build_script,
                   image_name, builds, attempted>>

\* the head of an iteration: parts, pkg_name, version, py_version
BuildTop ==
    /\ bpc = "top"
    /\ bidx <= Len(failed_wheels)
    /\ attempted' = attempted \cup {bidx}
    /\ IF Len(Split(Chars(WheelName))) < 2
       THEN /\ bpc' = "raised"
            /\ UNCHANGED bidx
       ELSE IF python_version_from_wheel(WheelName) = NoVersion
       THEN NextWheel
       ELSE /\ bpc' = "resolve"
            /\ UNCHANGED bidx
    /\ UNCHANGED <<mainVars, tagParts, tagOut, failed_wheels, variable_sh,
                   build_script, image_name, builds>>

\* read_buildinfo.sh is run for the package and the version, its result is
\* not looked at; BUILD_SCRIPT and IMAGE_NAME are read from variable.sh
BuildResolve ==
    /\ bpc = "resolve"
    /\ \E vs \in ReadBuildinfo(variable_sh, PkgName, Version) :
          /\ variable_sh' = vs
          /\ build_script' = Prefixed(SourceEcho(vs, "BUILD_SCRIPT"))
          /\ image_name' = SourceEcho(vs, "IMAGE_NAME")
          /\ bpc' = IF SourceEcho(vs, "BUILD_SCRIPT").set THEN "image" ELSE "fallback"
    /\ UNCHANGED <<mainVars, tagParts, tagOut, failed_wheels, bidx, builds, attempted>>

\* BUILD_SCRIPT was empty: the version major.minor.0 is tried
BuildFallback ==
    /\ bpc = "fallback"
    /\ IF ~HasFallback(Version)
       THEN /\ NextWheel
            /\ UNCHANGED <<variable_sh, build_script, image_name>>
       ELSE \E vs \in ReadBuildinfo(variable_sh, PkgName, FallbackVersion(Version)) :
              /\ variable_sh' = vs
              /\ build_script' = SourceEcho(vs, "BUILD_SCRIPT")
              /\ image_name' = SourceEcho(vs, "IMAGE_NAME")
              /\ IF SourceEcho(vs, "BUILD_SCRIPT").set
                 THEN /\ bpc' = "image"
                      /\ UNCHANGED bidx
                 ELSE NextWheel
    /\ UNCHANGED <<mainVars, tagParts, tagOut, failed_wheels, builds, attempted>>

\* docker image inspect; when the image is missing a base container is
\* started and committed under image_name, or cannot be started
BuildImage ==
    /\ bpc = "image"
    /\ \/ /\ bpc' = "build"
          /\ UNCHANGED bidx
       \/ NextWheel
    /\ UNCHANGED <<mainVars, tagParts, tagOut, failed_wheels, variable_sh,
                   build_script, image_name, builds, attempted>>

\* build_wheels.py is run with py_version, image_name, build_script, version
BuildWheel ==
    /\ bpc = "build"
    /\ \E rc \in {0, 1} :
          builds' = Append(builds,
                       [wheel |-> WheelName,
                        py_version |-> python_version_from_wheel(WheelName),
                        image_name |-> image_name,
                        build_script |-> build_script,
                        version |-> Version,
                        returncode |-> rc])
    /\ NextWheel
    /\ UNCHANGED <<mainVars, tagParts, tagOut, failed_wheels, variable_sh,
                   build_script, image_name, attempted>>

\* the loop is over
BuildEnd ==
    /\ bpc = "top"
    /\ bidx > Len(failed_wheels)
    /\ bpc' = "done"
    /\ UNCHANGED <<mainVars, tagParts, tagOut, failed_wheels, bidx, variable_sh,
                   build_script, image_name, builds, attempted>>

NextBuild ==
    \/ BuildLoad
    \/ BuildTop
    \/ BuildResolve
    \/ BuildFallback
    \/ BuildImage
    \/ BuildWheel
    \/ BuildEnd

SpecBuild == InitBuild /\ [][NextBuild]_vars

(***************************************************************************)
(* Vocabulary of the properties                                            *)
(***************************************************************************)

\* the wheel_path values of the rows of a checkpoint file
FileKeys(file) == {file.rows[k].wheel_path : k \in 1..Len(file.rows)}

\* the rows of a checkpoint file, as a set
FileRows(file) == {file.rows[k] : k \in 1..Len(file.rows)}

\* futures whose call record is still held (main() has not taken the result)
Held == Futures \ yielded

\* process_wheel has returned an outcome for future i, not yet taken by main()
HasOutcome(i) == i \in Held /\ fut[i].st = "returned"

\* the names of the model that end in -py3-none-any.whl or -py2.py3-none-any.whl
NoArchNames == {"a-1-py3-none-any.whl", "a-1-py2.py3-none-any.whl"}

(***************************************************************************)
(* C1. Idempotent resumption: in a run that follows a run of main() that   *)
(* reached its summary, with the same fetched artifacts and the checkpoint *)
(* that run left, to_process is empty, no future is submitted, and no step *)
(* changes any of the three checkpoint files.                              *)
(***************************************************************************)
C1_IdempotentResumption ==
    [][prevEnd' = "done" =>
         /\ to_process' = <<>>
         /\ fut' = <<>>
         /\ status_csv' = status_csv
         /\ all_csv' = all_csv
         /\ ext_csv' = ext_csv]_vars

\* a second run has reached its summary over a checkpoint holding every
\* fetched artifact
C1_Witness ==
    /\ prevEnd = "done"
    /\ mpc = "done"
    /\ status_csv.rows # <<>>
    /\ FileKeys(status_csv) = {fetched[k].name : k \in 1..Len(fetched)}

(***************************************************************************)
(* C2. An artifact whose filename is a key of the status table loaded at   *)
(* startup is never given to process_wheel in this run, whatever its       *)
(* statuses, and its loaded row stays as loaded in existing_status and in  *)
(* every completed rewrite of wheel_status.csv.                            *)
(***************************************************************************)
C2_LoadedNeverReprocessed ==
    \A k \in 1..Len(loaded) :
        /\ \A i \in Futures : fut[i].name # loaded[k].k
        /\ k <= Len(existing_status)
        /\ existing_status[k] = loaded[k]
        /\ mpc # "write_status" =>
             /\ k <= Len(status_csv.rows)
             /\ status_csv.rows[k] = loaded[k].v

\* a run loaded a row of a fetched artifact whose repair FAILED, processed
\* another artifact and rewrote the status file with both rows
C2_Witness ==
    /\ mpc = "loop"
    /\ processed > 0
    /\ \E k \in 1..Len(loaded) :
         /\ loaded[k].v.auditwheel_status = "FAILED"
         /\ \E j \in 1..Len(fetched) : fetched[j].name = loaded[k].k
         /\ Len(status_csv.rows) > Len(loaded)
         /\ status_csv.rows[k] = loaded[k].v

(***************************************************************************)
(* C3. Upload gating: when process_wheel returns an outcome whose repair   *)
(* status is FAILED, the call has made no upload, neither of the original  *)
(* nor of a repaired file.                                                 *)
(***************************************************************************)
C3_UploadGating ==
    \A i \in Futures :
        (HasOutcome(i) /\ fut[i].audit_status = "FAILED") => fut[i].ups = <<>>

\* process_wheel ran auditwheel and returned a FAILED repair
C3_Witness ==
    \E i \in Futures :
        /\ HasOutcome(i)
        /\ fut[i].audit_status = "FAILED"
        /\ fut[i].repairs = 1
        /\ fut[i].ups = <<>>

(***************************************************************************)
(* C4. A failure local to one artifact never aborts the batch: when main() *)
(* ends, by its summary or by an exception, every future has run and every *)
(* outcome a process_wheel call returned has been merged into the          *)
(* in-memory maps and flushed to the three checkpoint files.               *)
(***************************************************************************)
C4_BatchSurvivesFailure ==
    mpc \in {"done", "raised"} =>
        \A i \in Futures :
            /\ fut[i].st \in {"returned", "raised"}
            /\ fut[i].st = "returned" =>
                 /\ fut[i].name \in DictKeys(existing_status)
                 /\ fut[i].name \in FileKeys(status_csv)
                 /\ fut[i].name \in FileKeys(all_csv)
                 /\ fut[i].name \in FileKeys(ext_csv)

(***************************************************************************)
(* C5. Once the setup phase has succeeded no exception of a classification *)
(* leaves main(): main() ends by an exception only when the setup failed,  *)
(* that is with nothing dispatched.                                        *)
(***************************************************************************)
C5_NoExceptionPastBatch ==
    mpc = "raised" => to_process = <<>>

(***************************************************************************)
(* C6. Crash consistency: when the process is killed, every status row     *)
(* that was in the checkpoint at startup is still in wheel_status.csv, and *)
(* the three files hold the same set of artifact keys.                     *)
(***************************************************************************)
C6_CrashConsistent ==
    [][mpc' = "killed" =>
         /\ \A k \in 1..Len(loaded) : loaded[k].v \in FileRows(status_csv')
         /\ FileKeys(status_csv') = FileKeys(all_csv')
         /\ FileKeys(all_csv') = FileKeys(ext_csv')]_vars

(***************************************************************************)
(* C7. Resumption without duplicate work or lost results: in a run that    *)
(* follows a run ended by an exception or a kill, every artifact whose     *)
(* process_wheel call returned an outcome in an earlier run is in the      *)
(* status table loaded at startup and is not dispatched again.             *)
(***************************************************************************)
C7_NoReworkAfterFailure ==
    (prevEnd \in {"raised", "killed"} /\ (InPool \/ mpc = "done")) =>
        \A n \in returnedBefore :
            /\ n \in DictKeys(loaded)
            /\ \A i \in Futures : fut[i].name # n

(***************************************************************************)
(* C8. No-ELF detection: when auditwheel exits non-zero with the marker    *)
(* "no elf" in its lowered stderr, for a wheel that is not no-arch by      *)
(* name, process_wheel returns repair status SUCCESS with an empty library *)
(* list, and the only file given to the install test is the original.      *)
(***************************************************************************)
C8_NoElfDetection ==
    \A i \in Futures :
        ( /\ HasOutcome(i)
          /\ fut[i].name \notin NoArchNames
          /\ fut[i].res.returncode # 0
          /\ HasNoElf(fut[i].res.stderr) ) =>
            /\ fut[i].audit_status = "SUCCESS"
            /\ fut[i].bundled_libs = <<>>
            /\ fut[i].tested \in {<<>>, <<OrigFile(fut[i].name)>>}

(***************************************************************************)
(* C9. Empty-output enforcement: when auditwheel exited with code 0 and    *)
(* the listing of the output directory holds no wheel, process_wheel       *)
(* returns at once repair FAILED with the message "auditwheel succeeded    *)
(* but produced no manylinux wheel", install SKIPPED with an empty         *)
(* message and an empty library list, without install test or upload.      *)
(***************************************************************************)
C9_EmptyOutputEnforced ==
    [][\A i \in Futures :
         ( /\ fut[i].st = "running"
           /\ fut[i].pc = "listdir"
           /\ fut[i].res.returncode = 0
           /\ ListOut(fut[i].name) = {}
           /\ i \in DOMAIN fut'
           /\ fut'[i] # fut[i] ) =>
             /\ fut'[i].st = "returned"
             /\ fut'[i].audit_status = "FAILED"
             /\ fut'[i].audit_msg = "auditwheel succeeded but produced no manylinux wheel"
             /\ fut'[i].pip_status = "SKIPPED"
             /\ fut'[i].pip_msg = ""
             /\ fut'[i].bundled_libs = <<>>
             /\ fut'[i].tested = <<>>
             /\ fut'[i].ups = <<>>]_vars

\* auditwheel exited 0 and process_wheel returned the empty-output failure
C9_Witness ==
    \E i \in Futures :
        /\ HasOutcome(i)
        /\ fut[i].repairs = 1
        /\ fut[i].res.returncode = 0
        /\ fut[i].wheel_to_test = OrigFile(fut[i].name)
        /\ fut[i].audit_status = "FAILED"

(***************************************************************************)
(* C10. Platform-independent shortcut: for a filename ending in            *)
(* -py3-none-any.whl or -py2.py3-none-any.whl process_wheel never runs     *)
(* auditwheel; the install test starts only after the upload of the        *)
(* original file; and a returned outcome has repair SUCCESS, an empty      *)
(* library list and exactly one upload, of the original file, whatever     *)
(* the install status.                                                     *)
(***************************************************************************)
C10_NoArchShortcut ==
    \A i \in Held :
        fut[i].name \in NoArchNames =>
            /\ fut[i].repairs = 0
            /\ fut[i].tested # <<>> => fut[i].ups = <<OrigFile(fut[i].name)>>
            /\ fut[i].st = "returned" =>
                 /\ fut[i].audit_status = "SUCCESS"
                 /\ fut[i].bundled_libs = <<>>
                 /\ fut[i].ups = <<OrigFile(fut[i].name)>>

\* a py2.py3-none-any wheel was uploaded and then failed its install test
C10_Witness ==
    \E i \in Futures :
        /\ HasOutcome(i)
        /\ fut[i].name = "a-1-py2.py3-none-any.whl"
        /\ fut[i].pip_status = "FAILED"
        /\ fut[i].tested = <<OrigFile(fut[i].name)>>
        /\ fut[i].ups = <<OrigFile(fut[i].name)>>

(***************************************************************************)
(* C11. An outcome with repair status SUCCESS and install status SKIPPED   *)
(* because the resolved interpreter tag is not in PYTHON_BIN_MAP belongs   *)
(* to a call that uploaded the artifact, on the no-arch path and on the    *)
(* native repair path.                                                     *)
(***************************************************************************)
C11_SkippedStillUploaded ==
    \A i \in Futures :
        ( /\ HasOutcome(i)
          /\ fut[i].audit_status = "SUCCESS"
          /\ fut[i].pip_status = "SKIPPED"
          /\ fut[i].py_tag \notin PYTHON_BIN_MAP ) => fut[i].ups # <<>>

(***************************************************************************)
(* C12. Tool failures are recorded, never raised: a process_wheel call in  *)
(* which auditwheel (without the no-ELF marker in its stderr), the venv    *)
(* creation, the pip upgrade or the pip install exited non-zero, with any  *)
(* stderr, does not raise, and the outcome it returns has the status of    *)
(* that tool FAILED.                                                       *)
(***************************************************************************)
C12_ToolFailuresRecorded ==
    \A i \in Held :
        ( /\ fut[i].failed # ""
          /\ ~(fut[i].failed = "auditwheel" /\ HasNoElf(fut[i].res.stderr)) ) =>
            /\ fut[i].st # "raised"
            /\ fut[i].st = "returned" =>
                 IF fut[i].failed = "auditwheel"
                 THEN fut[i].audit_status = "FAILED"
                 ELSE fut[i].pip_status = "FAILED"

(***************************************************************************)
(* C14. Guaranteed release of the test environment: when process_wheel     *)
(* has returned or raised, the directory create_venv made for the call no  *)
(* longer exists.                                                          *)
(***************************************************************************)
C14_VenvReleased ==
    \A i \in Held :
        fut[i].st \in {"returned", "raised"} => fut[i].venv # "live"

(***************************************************************************)
(* C13. An artifact whose process_wheel call raised has no row in the      *)
(* status table of that run, in memory or on disk, no step of that run     *)
(* adds an entry for it to the library tables, and it is in to_process     *)
(* again in the next run.                                                  *)
(***************************************************************************)
C13_RaisedNotRecorded ==
    [][/\ \A i \in DOMAIN fut' :
            fut'[i].st = "raised" =>
              /\ fut'[i].name \notin DictKeys(existing_status')
              /\ fut'[i].name \notin FileKeys(status_csv')
              /\ fut'[i].name \in DictKeys(existing_all') =>
                   fut'[i].name \in DictKeys(existing_all)
              /\ fut'[i].name \in DictKeys(existing_ext') =>
                   fut'[i].name \in DictKeys(existing_ext)
       /\ (mpc = "setup" /\ mpc' = "loop") =>
            \A n \in raisedBefore :
                \E k \in 1..Len(to_process') : to_process'[k].name = n]_vars

(***************************************************************************)
(* C15. Checkpoint mutation is serialized: while process_wheel calls run   *)
(* in the pool, existing_status, existing_all, existing_ext and the three  *)
(* checkpoint files are changed only by steps of main() (no worker moves   *)
(* in a step that changes them), each file is changed only at its own      *)
(* open or write position, and a rewrite starts only when none is under    *)
(* way.                                                                    *)
(***************************************************************************)
C15_CheckpointSerialized ==
    [][/\ ( <<existing_status, existing_all, existing_ext, csvVars>>' #
              <<existing_status, existing_all, existing_ext, csvVars>> ) =>
            /\ mpc' # mpc
            /\ \A i \in DOMAIN fut' \cap DOMAIN fut :
                 i \notin yielded' => fut'[i] = fut[i]
       /\ status_csv' # status_csv =>
            (mpc \in {"open_status", "write_status"} \/ mpc' = "killed")
       /\ all_csv' # all_csv =>
            (mpc \in {"open_all", "write_all"} \/ mpc' = "killed")
       /\ ext_csv' # ext_csv =>
            (mpc \in {"open_ext", "write_ext"} \/ mpc' = "killed")
       /\ (mpc' # mpc /\ mpc' \in {"write_status", "write_all", "write_ext"}) =>
            mpc \notin {"write_status", "write_all", "write_ext"}]_vars

\* main() is rewriting wheel_status.csv with the first outcome while another
\* process_wheel call is running
C15_Witness ==
    /\ mpc = "write_status"
    /\ processed = 1
    /\ Running # {}
    /\ existing_status # <<>>

(***************************************************************************)
(* C16. No shared mutable state is touched inside process_wheel: SUMMARY   *)
(* is changed only by steps of main(), and no increment is lost, so that   *)
(* SUMMARY["total"] is the number of process_wheel calls that have made    *)
(* their increment.                                                        *)
(***************************************************************************)
C16_NoSharedStateInWorkers ==
    [][/\ SUMMARY' # SUMMARY => mpc' # mpc
       /\ SUMMARY'["total"] =
            Cardinality({i \in DOMAIN fut' : fut'[i].pc \notin {"start", "count"}})]_vars

(***************************************************************************)
(* C18. Summary reconciliation: when main() has loaded the status table    *)
(* and no artifact has been dispatched yet, audit_success, audit_failed,   *)
(* pip_success, pip_failed and pip_skipped are the numbers of loaded rows  *)
(* with that repair status or install status.                              *)
(***************************************************************************)
C18_SummaryReconciliation ==
    ( /\ mpc = "loop"
      /\ processed = 0
      /\ \A i \in Futures : fut[i].st = "pending" ) =>
        /\ SUMMARY["audit_success"] =
             Cardinality({k \in 1..Len(loaded) : loaded[k].v.auditwheel_status = "SUCCESS"})
        /\ SUMMARY["audit_failed"] =
             Cardinality({k \in 1..Len(loaded) : loaded[k].v.auditwheel_status = "FAILED"})
        /\ SUMMARY["pip_success"] =
             Cardinality({k \in 1..Len(loaded) : loaded[k].v.pip_install_status = "SUCCESS"})
        /\ SUMMARY["pip_failed"] =
             Cardinality({k \in 1..Len(loaded) : loaded[k].v.pip_install_status = "FAILED"})
        /\ SUMMARY["pip_skipped"] =
             Cardinality({k \in 1..Len(loaded) : loaded[k].v.pip_install_status = "SKIPPED"})

\* main() has loaded a table with one SUCCESS and one FAILED repair row, one
\* of them with a SKIPPED install, and has dispatched nothing
C18_Witness ==
    /\ mpc = "loop"
    /\ processed = 0
    /\ \A i \in Futures : fut[i].st = "pending"
    /\ Len(loaded) = 2
    /\ SUMMARY["audit_success"] = 1
    /\ SUMMARY["audit_failed"] = 1
    /\ SUMMARY["pip_skipped"] >= 1

(***************************************************************************)
(* C19. The run summary is reconstructible from the checkpoint: when       *)
(* main() reaches its summary, each of audit_success, audit_failed,        *)
(* pip_success, pip_failed, pip_skipped, no_elf and native_repaired is     *)
(* what the startup replay computes from the final checkpoint files, and   *)
(* audit_success + audit_failed is the number of status rows.              *)
(***************************************************************************)
C19_SummaryReconstructible ==
    mpc = "done" =>
        LET R == ReplayLibs(LoadLibs(all_csv.rows, <<>>),
                            ReplayStatus(LoadStatus(status_csv.rows, <<>>), ZeroSummary))
        IN  /\ \A k \in {"audit_success", "audit_failed", "pip_success", "pip_failed",
                          "pip_skipped", "no_elf", "native_repaired"} :
                   SUMMARY[k] = R[k]
            /\ SUMMARY["audit_success"] + SUMMARY["audit_failed"] = Len(status_csv.rows)

(***************************************************************************)
(* C17. No collisions on local storage: the repaired file a process_wheel  *)
(* call reads for libraries, install-tests, uploads and deletes is the     *)
(* file auditwheel wrote from the wheel of that call, also when two wheels *)
(* of one package and version with different interpreter tags are          *)
(* classified together.                                                    *)
(***************************************************************************)
C17_NoStorageCollision ==
    \A i \in Held :
        fut[i].wheel_to_test.kind = "rep" => fut[i].wheel_to_test.name = fut[i].name

(***************************************************************************)
(* C20. Ordering of persistence and progress: when main() prints the       *)
(* progress line that shows k processed, wheel_status.csv holds at least k *)
(* rows and the three files have been rewritten with every merged outcome. *)
(***************************************************************************)
C20_ProgressAfterPersist ==
    [][(progress' # progress /\ progress' # <<>>) =>
         /\ Len(status_csv'.rows) >= progress'[Len(progress')].shown
         /\ DictKeys(existing_status') \subseteq FileKeys(status_csv')
         /\ DictKeys(existing_all') \subseteq FileKeys(all_csv')
         /\ DictKeys(existing_ext') \subseteq FileKeys(ext_csv')]_vars

(***************************************************************************)
(* C21. Each artifact is classified once per run: no two futures of a run  *)
(* are for the same filename, and the merge of an outcome never replaces   *)
(* an entry of existing_status that was loaded at startup or merged        *)
(* earlier in the run.                                                     *)
(***************************************************************************)
C21_ClassifiedOnce ==
    [][/\ \A i, j \in DOMAIN fut' : fut'[i].name = fut'[j].name => i = j
       /\ (mpc = "loop" /\ mpc' = "open_status") =>
            /\ Len(existing_status') = Len(existing_status) + 1
            /\ SubSeq(existing_status', 1, Len(existing_status)) = existing_status]_vars

C23_NativeUploadAfterInstall ==
    \A i \in Held :
        /\ Len(fut[i].ups) <= 1
        /\ fut[i].name \notin NoArchNames =>
             /\ fut[i].ups # <<>> =>
                  /\ fut[i].pip_status = "SUCCESS"
                  /\ fut[i].wheel_to_test.kind = "rep"
                  /\ fut[i].tested = <<fut[i].wheel_to_test>>
                  /\ fut[i].ups = <<fut[i].wheel_to_test>>
             /\ (fut[i].st = "returned" /\ fut[i].pip_status = "SUCCESS") =>
                  fut[i].ups = <<fut[i].wheel_to_test>>
             /\ (fut[i].st = "returned" /\ fut[i].pip_status = "FAILED") =>
                  fut[i].ups = <<>>

\* a native wheel was repaired, installed and uploaded, and its call returned
C23_Witness ==
    \E i \in Futures :
        /\ HasOutcome(i)
        /\ fut[i].name \notin NoArchNames
        /\ fut[i].repairs = 1
        /\ fut[i].pip_status = "SUCCESS"
        /\ fut[i].ups = <<RepFile(fut[i].name)>>

\* the rows of a checkpoint file that belong to one filename, in file order
RowsFor(file, name) == SelectSeq(file.rows, LAMBDA r : r.wheel_path = name)

\* the value a dict holds for a key it has
ValueOf(d, key) == d[DictGet(d, key)].v

\* the library rows a native_libs file must hold for a dict entry
LibRowsOf(name, libs) ==
    [n \in 1..Len(libs) |-> [wheel_path |-> name, native_library |-> libs[n]]]

(***************************************************************************)
(* C24. Frame of merge and flush.  When main() merges the outcome of X,    *)
(* the three files agree with the three dicts, the dicts keep the entry of *)
(* every other filename unchanged, gain no key but X, and X's status entry *)
(* is the row made of the five fields of the outcome; each rewrite then    *)
(* writes, for every key of its dict, exactly the rows of that entry and   *)
(* no other row.  So the rows of every other filename are after the flush  *)
(* what they were before it, and the status file holds X's row.            *)
(***************************************************************************)
C24_MergeFlushFrame ==
    [][/\ (mpc = "loop" /\ mpc' = "open_status") =>
            \E i \in yielded' \ yielded :
                LET X == fut[i].name
                    w == fut[i]
                IN  /\ \A k \in DictKeys(existing_status) :
                           /\ RowsFor(status_csv, k) = <<ValueOf(existing_status, k)>>
                           /\ k # X => /\ k \in DictKeys(existing_status')
                                       /\ ValueOf(existing_status', k)
                                            = ValueOf(existing_status, k)
                    /\ \A k \in DictKeys(existing_all) :
                           /\ RowsFor(all_csv, k) = LibRowsOf(k, ValueOf(existing_all, k))
                           /\ k # X => /\ k \in DictKeys(existing_all')
                                       /\ ValueOf(existing_all', k)
                                            = ValueOf(existing_all, k)
                    /\ \A k \in DictKeys(existing_ext) :
                           /\ RowsFor(ext_csv, k) = LibRowsOf(k, ValueOf(existing_ext, k))
                           /\ k # X => /\ k \in DictKeys(existing_ext')
                                       /\ ValueOf(existing_ext', k)
                                            = ValueOf(existing_ext, k)
                    /\ DictKeys(existing_status') = DictKeys(existing_status) \cup {X}
                    /\ DictKeys(existing_all') = DictKeys(existing_all) \cup {X}
                    /\ DictKeys(existing_ext') = DictKeys(existing_ext) \cup {X}
                    /\ ValueOf(existing_status', X)
                         = [wheel_path |-> X,
                            auditwheel_status |-> w.audit_status,
                            auditwheel_message |-> w.audit_msg,
                            pip_install_status |-> w.pip_status,
                            pip_install_message |-> w.pip_msg]
       /\ (mpc = "write_status" /\ mpc' = "open_all") =>
            /\ FileKeys(status_csv') = DictKeys(existing_status)
            /\ \A k \in DictKeys(existing_status) :
                   RowsFor(status_csv', k) = <<ValueOf(existing_status, k)>>
       /\ (mpc = "write_all" /\ mpc' = "open_ext") =>
            /\ FileKeys(all_csv') = DictKeys(existing_all)
            /\ \A k \in DictKeys(existing_all) :
                   RowsFor(all_csv', k) = LibRowsOf(k, ValueOf(existing_all, k))
       /\ (mpc = "write_ext" /\ mpc' = "loop") =>
            /\ FileKeys(ext_csv') = DictKeys(existing_ext)
            /\ \A k \in DictKeys(existing_ext) :
                   RowsFor(ext_csv', k) = LibRowsOf(k, ValueOf(existing_ext, k))]_vars

\* a second outcome was merged and flushed next to rows that were there:
\* a row loaded at startup or merged earlier, and a native wheel's libraries
C24_Witness ==
    /\ mpc = "loop"
    /\ processed > 0
    /\ Len(status_csv.rows) >= 2
    /\ status_csv.rows = RowsOfStatus(existing_status)
    /\ \E k \in 1..Len(all_csv.rows) : all_csv.rows[k].native_library # "not found"

\* names whose outcome main() has merged in this run
MergedNow == {fut[i].name : i \in {j \in yielded : fut[j].st = "returned"}}

(***************************************************************************)
(* C25. Library tables.  The merge of an outcome sets the library entry of *)
(* its filename, in both dicts, to the single sentinel "not found" when    *)
(* the outcome's library list is empty and to that list otherwise; and in  *)
(* every state that follows a complete flush, each filename merged in this *)
(* run has at least one row in native_libs_all.csv, its rows are either    *)
(* the one sentinel row or hold no sentinel at all, and its rows in        *)
(* native_libs_external.csv are the same rows.                             *)
(***************************************************************************)
C25_LibraryTables ==
    [][/\ (mpc = "loop" /\ mpc' = "open_status") =>
            \E i \in yielded' \ yielded :
                LET libs == IF fut[i].bundled_libs = <<>>
                            THEN <<"not found">> ELSE fut[i].bundled_libs
                IN  /\ ValueOf(existing_all', fut[i].name) = libs
                    /\ ValueOf(existing_ext', fut[i].name) = libs
                    /\ \A n \in 1..Len(fut[i].bundled_libs) :
                           fut[i].bundled_libs[n] # "not found"
       /\ (mpc' = "loop" /\ processed' > 0) =>
            \A X \in MergedNow' :
                LET rows == RowsFor(all_csv', X)
                IN  /\ Len(rows) >= 1
                    /\ rows = LibRowsOf(X, ValueOf(existing_all', X))
                    /\ \/ rows = <<[wheel_path |-> X, native_library |-> "not found"]>>
                       \/ \A n \in 1..Len(rows) : rows[n].native_library # "not found"
                    /\ RowsFor(ext_csv', X) = rows]_vars

\* after a flush the tables hold the sentinel row of one merged filename and
\* the library rows of another
C25_Witness ==
    /\ mpc = "loop"
    /\ processed > 0
    /\ \E X, Y \in MergedNow :
          /\ RowsFor(all_csv, X) = <<[wheel_path |-> X, native_library |-> "not found"]>>
          /\ RowsFor(ext_csv, Y) # <<>>
          /\ \A n \in 1..Len(RowsFor(ext_csv, Y)) :
                 RowsFor(ext_csv, Y)[n].native_library # "not found"

(***************************************************************************)
(* C26. Progress lines of one run: the k-th line shows processed_so_far =  *)
(* already_processed + k out of overall_total = already_processed + the    *)
(* number of dispatched artifacts, its remaining is overall_total minus    *)
(* processed_so_far and is never negative (so processed_so_far rises by 1  *)
(* and remaining falls by 1 from line to line), and when main() ends with  *)
(* an outcome returned by every dispatched artifact the last line has      *)
(* remaining = 0.                                                          *)
(***************************************************************************)
C26_ProgressCounters ==
    LET already == Len(loaded)
        overall == Len(loaded) + Len(to_process)
    IN  /\ \A k \in 1..Len(progress) :
               /\ progress[k].shown = already + k
               /\ progress[k].total = overall
               /\ progress[k].shown + progress[k].remaining = overall
               /\ progress[k].remaining >= 0
               /\ k > 1 => /\ progress[k].shown = progress[k - 1].shown + 1
                           /\ progress[k].remaining = progress[k - 1].remaining - 1
        /\ (mpc = "done" /\ to_process # <<>>
               /\ \A i \in Futures : fut[i].st = "returned") =>
             /\ Len(progress) = Len(to_process)
             /\ progress[Len(progress)].remaining = 0

\* a second run that loaded one row and finished the one artifact left
C26_Witness ==
    /\ run = 2
    /\ mpc = "done"
    /\ Len(loaded) = 1
    /\ progress = <<[shown |-> 2, total |-> 2, remaining |-> 0]>>

\* a run that printed two lines and finished
C26_WitnessTwoLines ==
    /\ mpc = "done"
    /\ Len(progress) = 2
    /\ progress[2].remaining = 0

(***************************************************************************)
(* C27. Queue drain.  Every started run of main() comes to an end; unless  *)
(* it ends with an exception (of the fetch or of a process_wheel call,     *)
(* re-raised by f.result()) or by a kill, it ends after the loop, and then *)
(* the keys of wheel_status.csv are the keys loaded at startup together    *)
(* with the filenames of to_process.                                       *)
(***************************************************************************)
C27_QueueDrain ==
    (mpc = "setup") ~>
        \/ mpc \in {"raised", "killed"}
        \/ /\ mpc = "done"
           /\ FileKeys(status_csv)
                = DictKeys(loaded) \cup {to_process[i].name : i \in 1..Len(to_process)}

\* a second run that loaded a row, dispatched the artifact left and ended
\* after the loop with both keys in the file
C27_Witness ==
    /\ run = 2
    /\ mpc = "done"
    /\ Len(loaded) = 1
    /\ Len(to_process) = 1
    /\ \A i \in Futures : fut[i].st = "returned"
    /\ Cardinality(FileKeys(status_csv)) = 2

(***************************************************************************)
(* C28. Cleanup.  When process_wheel has returned an outcome for a         *)
(* filename that was dispatched once, the downloaded copy of the wheel is  *)
(* gone from DOWNLOAD_DIR and no repaired copy made for it is left in      *)
(* REPAIRED_DIR.                                                           *)
(***************************************************************************)
C28_CleanupOnReturn ==
    \A i \in Futures :
        (/\ HasOutcome(i)
         /\ \A j \in Futures : fut[j].name = fut[i].name => j = i) =>
            /\ dl[fut[i].name] = "none"
            /\ ~outDir[fut[i].name].here

(***************************************************************************)
(* C29. Download cache.  Once download() has returned the local path to a  *)
(* process_wheel call (the only call of this run for the filename), the    *)
(* file at that path is not a truncated one: the steps that follow, the    *)
(* repair, the install test, the uploads and the returned outcome, work on *)
(* the complete bytes of the artifact.                                     *)
(***************************************************************************)
C29_CacheHoldsCompleteFile ==
    \A i \in Held :
        (/\ fut[i].st = "running"
         /\ fut[i].pc \notin {"count", "stream"}
         /\ \A j \in Futures : fut[j].name = fut[i].name => j = i) =>
            dl[fut[i].name] # "partial"

(***************************************************************************)
(* C30. Source build.  Every call of build_wheels.py is given a            *)
(* BUILD_SCRIPT and an IMAGE_NAME that read_buildinfo.sh resolved for the  *)
(* package of the wheel being built and for its version or its             *)
(* major.minor.0 fallback; and when main() ends after the loop, the loop   *)
(* has entered every FAILED wheel.                                         *)
(***************************************************************************)
C30_BuildIsolation ==
    /\ \A k \in 1..Len(builds) :
          LET b == builds[k]
              parts == Split(Chars(b.wheel))
              versions == {parts[2]} \cup (IF HasFallback(parts[2])
                                           THEN {FallbackVersion(parts[2])} ELSE {})
          IN  /\ b.build_script.set
              /\ b.build_script.pkg = parts[1]
              /\ b.build_script.ver \in versions
              /\ b.image_name.pkg = parts[1]
              /\ b.image_name.ver \in versions
    /\ bpc = "done" => attempted = 1..Len(failed_wheels)

====
